---- MODULE Spec2Model ----
(***************************************************************************)
(* A model of the form builder's preview: the variant dispatcher           *)
(* (renderFormField), the JSON field conversion, the JSON-driven preview   *)
(* (FormJsonBuilder + FormRenderer) and the builder preview (FormPreview + *)
(* renderFormFields).                                                      *)
(***************************************************************************)
EXTENDS Integers, Sequences, FiniteSets, TLC

VARIABLES
  jsonValue,   \* FormJsonBuilder: the editor text
  formData,    \* FormJsonBuilder: the last parsed value, handed to FormRenderer
  error,       \* FormJsonBuilder: the error line under the editor
  key,         \* FormJsonBuilder: the React key of the FormRenderer instance
  bag,         \* FormRenderer: the useState slots of the mounted instance
  formValues,  \* FormRenderer: the values bound by useForm, by field name
  screen,      \* FormRenderer: what the last render produced (closures included)
  edits,       \* the number of texts the session has typed into the editor
  toggles,     \* FormRenderer: the parity of the number of toggle events the
               \* mounted instance has handled, 0 even and 1 odd
  pFields,     \* FormPreview: the formFields prop
  pValues,     \* FormPreview: the values bound by useForm, by field name
  pScreen,     \* FormPreview: what the last render produced
  pWellFormed, \* FormPreview: whether the formatter accepts the code generated
               \* for pFields
  pEvents,     \* the number of events the controls of the builder's preview handled
  dpc,         \* dispatch pipeline: "json", "field" or "done"
  dJson,       \* dispatch pipeline: the JSON field object given to the conversion
  dField,      \* dispatch pipeline: the FieldSpec given to the dispatcher
  dState,      \* dispatch pipeline: the state bag given to the dispatcher
  dOut         \* dispatch pipeline: what the call returned

vars == <<jsonValue, formData, error, key, bag, formValues, screen, edits, toggles,
          pFields, pValues, pScreen, pWellFormed, pEvents, dpc, dJson, dField, dState, dOut>>

editorVars   == <<jsonValue, formData, error, key, bag, formValues, screen, edits,
                  toggles>>
previewVars  == <<pFields, pValues, pScreen, pWellFormed, pEvents>>
dispatchVars == <<dpc, dJson, dField, dState, dOut>>

----------------------------------------------------------------------------
(* JavaScript values.  An optional value (a property that may be absent,   *)
(* `Date | undefined`, `File[] | null`) is <<>> when absent and <<v>> when *)
(* present.  A string the code takes apart with charAt(0) and slice(1) is  *)
(* kept as those two parts; every other string is a TLA+ string.           *)

None == <<>>
Some(v) == <<v>>

S(c, r) == [first |-> c, rest |-> r]
EmptyS == S("", "")

\* a || b on an optional number: absent and 0 are falsy
OrElse(a, b) == IF a = None \/ a = Some(0) THEN b ELSE a[1]

\* a || b on an optional boolean: absent and false are falsy
OrBool(a, b) == IF a = None \/ a = Some(FALSE) THEN b ELSE a[1]

\* a || b on a TLA+ string: '' is falsy
OrStr(a, b) == IF a = "" THEN b ELSE a

Lower == <<"a", "b", "c", "d", "e", "f", "g", "h", "i", "j", "k", "l", "m",
           "n", "o", "p", "q", "r", "s", "t", "u", "v", "w", "x", "y", "z">>
Upper == <<"A", "B", "C", "D", "E", "F", "G", "H", "I", "J", "K", "L", "M",
           "N", "O", "P", "Q", "R", "S", "T", "U", "V", "W", "X", "Y", "Z">>

\* String.prototype.toUpperCase on the one character charAt(0) yields
toUpperCase(c) ==
  IF \E i \in 1..Len(Lower) : Lower[i] = c
    THEN Upper[CHOOSE i \in 1..Len(Lower) : Lower[i] = c]
    ELSE c

\* What an exception leaves in place of a value
TypeError == [throw |-> "TypeError"]
InvariantError == [throw |-> "Error"]
FormatError == [throw |-> "FormatError"]
IsThrow(v) == v \in {TypeError, InvariantError, FormatError}

----------------------------------------------------------------------------
(* The variant tags of the dispatcher's switch.                            *)

Checkbox           == S("C", "heckbox")
Combobox           == S("C", "ombobox")
DatePicker         == S("D", "ate Picker")
DatetimePicker     == S("D", "atetime Picker")
FileInput          == S("F", "ile Input")
Input              == S("I", "nput")
InputOTP           == S("I", "nput OTP")
LocationInput      == S("L", "ocation Input")
MultiSelect        == S("M", "ulti Select")
Select             == S("S", "elect")
Slider             == S("S", "lider")
SignatureInput     == S("S", "ignature Input")
SmartDatetimeInput == S("S", "mart Datetime Input")
Switch             == S("S", "witch")
TagsInput          == S("T", "ags Input")
Textarea           == S("T", "extarea")
Password           == S("P", "assword")
\* the Phone tag misspelt in its case label
Phone_Misspelt     == S("p", "hone")
Phone              == S("P", "hone")

languages == <<
  [label |-> "English",    value |-> "en"],
  [label |-> "French",     value |-> "fr"],
  [label |-> "German",     value |-> "de"],
  [label |-> "Spanish",    value |-> "es"],
  [label |-> "Portuguese", value |-> "pt"],
  [label |-> "Russian",    value |-> "ru"],
  [label |-> "Japanese",   value |-> "ja"],
  [label |-> "Korean",     value |-> "ko"],
  [label |-> "Chinese",    value |-> "zh"] >>

\* languages.find((language) => language.value === v)?.label
languageLabel(v) ==
  IF \E i \in 1..Len(languages) : languages[i].value = v
    THEN Some(languages[CHOOSE i \in 1..Len(languages) : languages[i].value = v].label)
    ELSE None

\* date-fns format(date, 'PPP')
format(date) == "PPP " \o date

\* The dispatcher's "no control"
Null == [control |-> "null"]

----------------------------------------------------------------------------
(* The state bag: the value half of the `state` argument of the dispatcher. *)
(* The setter half is what a handler calls; a call is recorded as           *)
(* [fn, args] and carried out by the host that supplied the setters.        *)

\* useState() initial values with a date already in the date slot
InitialBag_DatePicked ==
  [checked        |-> FALSE,
   smartDatetime  |-> None,
   tagsValue      |-> <<>>,
   value          |-> "",
   date           |-> Some("2024-03-01"),
   selectedValues |-> <<>>,
   countryName    |-> "",
   stateName      |-> "",
   files          |-> None,
   datetime       |-> None]

\* FormRenderer: the useState() initial values
InitialBag ==
  [checked        |-> FALSE,
   smartDatetime  |-> None,
   tagsValue      |-> <<>>,
   value          |-> "",
   date           |-> None,
   selectedValues |-> <<>>,
   countryName    |-> "",
   stateName      |-> "",
   files          |-> None,
   datetime       |-> None]

\* Values bound by the form, tagged by their JavaScript type
Value(t, s, a, b, n) == [t |-> t, s |-> s, a |-> a, b |-> b, n |-> n]
Str(s)  == Value("string", s, <<>>, FALSE, 0)
Arr(a)  == Value("array", "", a, FALSE, 0)
Bool(b) == Value("boolean", "", <<>>, b, 0)
Num(n)  == Value("number", "", <<>>, FALSE, n)
Undefined == Value("undefined", "", <<>>, FALSE, 0)

Call(fn, args) == [fn |-> fn, args |-> args]

----------------------------------------------------------------------------
(* renderFormField: the control description returned for a field, and the  *)
(* handlers the description closes over.                                   *)

SliderDefaultValue == 5
OTPMaxLength == 6

renderCheckbox(field, form, state) ==
  [control  |-> "Checkbox",
   checked  |-> state.checked,
   disabled |-> field.disabled]

renderCombobox(field, form, state) ==
  [control |-> "Combobox",
   button  |-> IF state.value /= ""
                 THEN languageLabel(state.value)
                 ELSE Some("Select language"),
   items   |-> [i \in 1..Len(languages) |->
                  [value |-> languages[i].value,
                   check |-> languages[i].value = state.value]]]

renderDatePicker(field, form, state) ==
  [control  |-> "Date Picker",
   button   |-> IF state.date /= None
                  THEN format(state.date[1])
                  ELSE "Pick a date",
   selected |-> state.date]

renderDatetimePicker(field, form, state) ==
  [control |-> "Datetime Picker", value |-> state.datetime]

renderFileInput(field, form, state) ==
  [control |-> "File Input",
   value   |-> state.files,
   items   |-> IF state.files /= None /\ Len(state.files[1]) > 0
                 THEN state.files[1]
                 ELSE <<>>]

renderInput(field, form, state) ==
  [control |-> "Input", disabled |-> field.disabled, type |-> field.type]

renderInputOTP(field, form, state) ==
  [control |-> "Input OTP", maxLength |-> OTPMaxLength, slots |-> OTPMaxLength]

renderMultiSelect(field, form, state) ==
  [control |-> "Multi Select",
   values  |-> state.selectedValues,
   items   |-> <<"React", "Vue", "Svelte">>]

renderSelect(field, form, state) ==
  [control      |-> "Select",
   defaultValue |-> "m@example.com",
   items        |-> <<"m@example.com", "m@google.com", "m@support.com">>]

renderSlider(field, form, state) ==
  LET min == OrElse(field.min, 0)
      max == OrElse(field.max, 100)
      step == OrElse(field.step, 1)
      defaultValue == SliderDefaultValue
  IN [control      |-> "Slider",
      min          |-> min,
      max          |-> max,
      step         |-> step,
      defaultValue |-> defaultValue,
      selected     |-> OrStr(state.value, ToString(defaultValue))]

renderSmartDatetimeInput(field, form, state) ==
  [control |-> "Smart Datetime Input", value |-> state.smartDatetime]

\* a Switch that shows the flag its own field declares
renderSwitch_OwnFlag(field, form, state) ==
  [control |-> "Switch", checked |-> field.checked]

renderSwitch(field, form, state) ==
  [control |-> "Switch", checked |-> state.checked]

renderTagsInput(field, form, state) ==
  LET currentTags == IF form[field.name].t = "array"
                       THEN form[field.name].a ELSE <<>>
  IN [control |-> "Tags Input", value |-> state.tagsValue]

renderFormField(field, form, state) ==
  CASE field.variant = Checkbox           -> renderCheckbox(field, form, state)
    [] field.variant = Combobox           -> renderCombobox(field, form, state)
    [] field.variant = DatePicker         -> renderDatePicker(field, form, state)
    [] field.variant = DatetimePicker     -> renderDatetimePicker(field, form, state)
    [] field.variant = FileInput          -> renderFileInput(field, form, state)
    [] field.variant = Input              -> renderInput(field, form, state)
    [] field.variant = InputOTP           -> renderInputOTP(field, form, state)
    [] field.variant = LocationInput      -> [control |-> "Location Input"]
    [] field.variant = MultiSelect        -> renderMultiSelect(field, form, state)
    [] field.variant = Select             -> renderSelect(field, form, state)
    [] field.variant = Slider             -> renderSlider(field, form, state)
    [] field.variant = SignatureInput     -> [control |-> "Signature Input"]
    [] field.variant = SmartDatetimeInput -> renderSmartDatetimeInput(field, form, state)
    [] field.variant = Switch             -> renderSwitch(field, form, state)
    [] field.variant = TagsInput          -> renderTagsInput(field, form, state)
    [] field.variant = Textarea           -> [control |-> "Textarea"]
    [] field.variant = Password           -> [control |-> "Password", text |-> "password"]
    [] field.variant = Phone              -> [control |-> "Phone", defaultCountry |-> "TR"]
    [] OTHER -> Null

\* Checkbox: onCheckedChange={() => { state.setChecked(!state.checked) }}
Checkbox_onCheckedChange(field, state) ==
  << Call("setChecked", <<~state.checked>>) >>

\* Combobox: onSelect of the item of `language`
Combobox_onSelect(field, state, language) ==
  << Call("setValue", <<language.value>>),
     Call("form.setValue", <<field.name, Str(language.value)>>) >>

\* Date Picker: Calendar onSelect={(date) => { state.setDate(date) }}
DatePicker_onSelect(field, state, date) ==
  << Call("setDate", <<date>>) >>

\* Datetime Picker: onChange={(datetime) => { if (datetime) ... }}
DatetimePicker_onChange(field, state, datetime) ==
  IF datetime /= None
    THEN << Call("setDatetime", <<datetime>>) >>
    ELSE << >>

\* File Input: onValueChange={(files) => { state.setFiles(files || null) }}
FileInput_onValueChange(field, state, files) ==
  << Call("setFiles", <<files>>) >>

\* Location Input: onCountryChange, country an optional name
LocationInput_onCountryChange(field, state, country) ==
  LET name == IF country = None THEN "" ELSE OrStr(country[1], "")
  IN << Call("setCountryName", <<name>>),
        Call("form.setValue",
             <<field.name, Arr(<<name, OrStr(state.stateName, "")>>)>>) >>

\* Location Input: onStateChange, stateData an optional name
LocationInput_onStateChange(field, state, stateData) ==
  LET name == IF stateData = None THEN "" ELSE OrStr(stateData[1], "")
  IN << Call("setStateName", <<name>>),
        Call("form.setValue",
             <<field.name, Arr(<<OrStr(state.countryName, ""), name>>)>>) >>

\* Multi Select: onValuesChange
MultiSelect_onValuesChange(field, state, newValues) ==
  << Call("setSelectedValues", <<newValues>>),
     Call("form.setValue", <<field.name, Arr(newValues)>>) >>

\* Slider: onValueChange={(value) => { state.setValue(value[0].toString()) }}
Slider_onValueChange(field, state, value) ==
  << Call("setValue", <<ToString(value[1])>>) >>

\* Signature Input: onSignatureChange, signature an optional payload
SignatureInput_onSignatureChange(field, state, signature) ==
  IF signature /= None /\ signature /= Some("")
    THEN << Call("field.onChange", <<signature[1]>>) >>
    ELSE << >>

\* Smart Datetime Input: onValueChange
SmartDatetimeInput_onValueChange(field, state, newDate) ==
  << Call("setSmartDatetime", <<Some(newDate)>>) >>

\* Switch: onCheckedChange={() => { state.setChecked(!state.checked) }}
Switch_onCheckedChange(field, state) ==
  << Call("setChecked", <<~state.checked>>) >>

\* Tags Input: onValueChange
TagsInput_onValueChange(field, state, newTags) ==
  << Call("setTagsValue", <<newTags>>),
     Call("form.setValue", <<field.name, Arr(newTags)>>) >>

----------------------------------------------------------------------------
(* convertJsonFieldToFormField                                             *)

\* A JSON field object; an absent property is None
JsonField(type, name, checked, defaultValue, min, max, step) ==
  [type |-> type, name |-> name, checked |-> checked, disabled |-> None,
   defaultValue |-> defaultValue, min |-> min, max |-> max, step |-> step,
   options |-> None, length |-> None]

typeToVariant == <<
  <<S("t", "ext"),     Input>>,
  <<S("e", "mail"),    Input>>,
  <<S("t", "extarea"), Textarea>>,
  <<S("p", "assword"), Password>>,
  <<S("c", "heckbox"), Checkbox>>,
  <<S("s", "elect"),   Select>>,
  <<S("f", "ile"),     FileInput>>,
  <<S("d", "ate"),     DatePicker>>,
  <<S("d", "atetime"), DatetimePicker>>,
  <<S("p", "hone"),    Phone>> >>

\* typeToVariant[jsonField.type]: undefined for a key the table lacks
typeToVariantAt(type) ==
  IF type /= None /\ \E i \in 1..Len(typeToVariant) : typeToVariant[i][1] = type[1]
    THEN Some(typeToVariant[CHOOSE i \in 1..Len(typeToVariant) :
                              typeToVariant[i][1] = type[1]][2])
    ELSE None

convertJsonFieldToFormField(jsonField) ==
  LET mapped == typeToVariantAt(jsonField.type)
      rest(variant) ==
        [variant  |-> variant,
         type     |-> IF jsonField.type = None THEN EmptyS ELSE jsonField.type[1],
         name     |-> jsonField.name,
         disabled |-> OrBool(jsonField.disabled, FALSE),
         checked  |-> OrBool(jsonField.checked, FALSE),
         options  |-> jsonField.options,
         min      |-> None,
         max      |-> None,
         step     |-> None]
  IN IF mapped /= None THEN rest(mapped[1])
     ELSE IF jsonField.type = None THEN TypeError      \* undefined.charAt
     ELSE rest(S(toUpperCase(jsonField.type[1].first), jsonField.type[1].rest))

----------------------------------------------------------------------------
(* JSON text.  The editor text is a sequence of tokens; an object literal   *)
(* of a field is one token that carries the field.  JSON.parse yields a     *)
(* tagged value or throws a SyntaxError.                                    *)

Tok(t) == [tok |-> t, num |-> 0, field |-> None]
FieldTok(jsonField) == [tok |-> "field", num |-> 0, field |-> Some(jsonField)]
NumTok(n) == [tok |-> "number", num |-> n, field |-> None]

JValue(t, n, items, fields) == [t |-> t, n |-> n, items |-> items, fields |-> fields]
SyntaxError == JValue("SyntaxError", 0, <<>>, None)
JNumber(n) == JValue("number", n, <<>>, None)
\* an array of field objects
JArray(items) == JValue("array", 0, items, None)
\* an object: `fields` is None when the object has no such property
JObject(fields) == JValue("object", 0, <<>>, fields)

\* text is `[ field , field , ... ]`
IsArrayText(text) ==
  LET n == Len(text) IN
    /\ n >= 2
    /\ text[1].tok = "["
    /\ text[n].tok = "]"
    /\ \/ n = 2
       \/ /\ n % 2 = 1
          /\ \A i \in 2..(n - 1) :
               IF i % 2 = 0 THEN text[i].tok = "field" ELSE text[i].tok = ","

ArrayOfText(text) ==
  JArray([k \in 1..((Len(text) - 1) \div 2) |-> text[2 * k].field[1]])

JSONparse(text) ==
  LET n == Len(text)
      inner == SubSeq(text, 4, n - 1)
  IN CASE n = 1 /\ text[1].tok = "number" -> JNumber(text[1].num)
       [] IsArrayText(text) -> ArrayOfText(text)
       [] n = 2 /\ text[1].tok = "{" /\ text[2].tok = "}" -> JObject(None)
       [] /\ n >= 5
          /\ text[1].tok = "{" /\ text[2].tok = "\"fields\"" /\ text[3].tok = ":"
          /\ text[n].tok = "}"
          /\ \/ IsArrayText(inner)
             \/ Len(inner) = 1 /\ inner[1].tok = "number"
          -> JObject(Some(IF IsArrayText(inner)
                            THEN ArrayOfText(inner)
                            ELSE JNumber(inner[1].num)))
       [] OTHER -> SyntaxError

RECURSIVE Joined(_)
\* the tokens of the items of an array, commas between them
Joined(items) ==
  IF Len(items) = 0 THEN <<>>
  ELSE IF Len(items) = 1 THEN <<FieldTok(items[1])>>
  ELSE <<FieldTok(items[1]), Tok(",")>> \o Joined(Tail(items))

\* JSON.stringify of an object whose `fields` is an array of field objects
JSONstringify(value) ==
  <<Tok("{"), Tok("\"fields\""), Tok(":"), Tok("[")>>
    \o Joined(value.fields[1].items) \o <<Tok("]"), Tok("}")>>

Absent == None

defaultFormJson ==
  JObject(Some(JArray(<<
    JsonField(Some(S("t", "ext")),     "fullName", Absent, Absent, Absent, Absent, Absent),
    JsonField(Some(S("e", "mail")),    "email",    Absent, Absent, Absent, Absent, Absent),
    JsonField(Some(S("t", "extarea")), "bio",      Absent, Absent, Absent, Absent, Absent) >>)))

----------------------------------------------------------------------------
(* FormRenderer                                                            *)

\* The field names the forms of the model use
Names == {"fullName", "email", "bio", "a", "b", "c", "d"}

\* generateDefaultValues, one field: the initial value bound under the
\* field's name, None for a variant the registry lacks
DefaultOf(field) ==
  CASE field.variant \in {Checkbox, Switch} -> Some(Bool(field.checked))
    [] field.variant \in {MultiSelect, TagsInput, FileInput} -> Some(Arr(<<>>))
    [] field.variant = Slider -> Some(Num(0))
    [] field.variant \in {DatePicker, DatetimePicker, SmartDatetimeInput} ->
         Some(Undefined)
    [] field.variant \in {Input, Textarea, Password, Phone, Select, Combobox,
                          SignatureInput, InputOTP, LocationInput} -> Some(Str(""))
    [] OTHER -> None

RECURSIVE generateDefaultValuesFrom(_, _)
generateDefaultValuesFrom(formFields, acc) ==
  IF Len(formFields) = 0 THEN acc
  ELSE generateDefaultValuesFrom(
         Tail(formFields),
         IF DefaultOf(Head(formFields)) = None
           THEN acc
           ELSE [acc EXCEPT ![Head(formFields).name] = DefaultOf(Head(formFields))[1]])

generateDefaultValues(formFields) ==
  generateDefaultValuesFrom(formFields, [n \in Names |-> Undefined])

\* formData.fields.map(convertJsonFieldToFormField): the FieldSpecs, or the
\* TypeError of reading `fields` of a value without it, of calling map on a
\* value that is no array, or of the conversion
formFieldsOf(data) ==
  IF data.t /= "object" \/ data.fields = None
    THEN [error |-> Some(TypeError), formFields |-> <<>>]
  ELSE IF data.fields[1].t /= "array"
    THEN [error |-> Some(TypeError), formFields |-> <<>>]
  ELSE LET items == data.fields[1].items
           converted == [i \in 1..Len(items) |-> convertJsonFieldToFormField(items[i])]
       IN IF \E i \in 1..Len(items) : converted[i] = TypeError
            THEN [error |-> Some(TypeError), formFields |-> <<>>]
            ELSE [error |-> None, formFields |-> converted]

\* renderedFields without `if (!renderedField) return null`
renderedFields_NoNullCheck(formFields, form, state) ==
  [index \in 1..Len(formFields) |->
     [control |-> "FormField",
      name    |-> formFields[index].name,
      child   |-> renderFormField(formFields[index], form, state)]]

\* const renderedFields = formFields.map(...): null for a field without a
\* control, the FormField of the control otherwise
renderedFields(formFields, form, state) ==
  [index \in 1..Len(formFields) |->
     LET renderedField == renderFormField(formFields[index], form, state)
     IN IF renderedField = Null
          THEN Null
          ELSE [control |-> "FormField",
                name    |-> formFields[index].name,
                child   |-> renderedField]]

\* One run of the FormRenderer function for the instance of key k
FormRenderer(data, k, form, state) ==
  LET converted == formFieldsOf(data)
      formFields == converted.formFields
  IN IF converted.error /= None
       THEN [status |-> "crashed", key |-> k, formFields |-> <<>>,
             state |-> state, rendered |-> <<>>]
       ELSE [status |-> "rendered", key |-> k, formFields |-> formFields,
             state |-> state,
             rendered |-> renderedFields(formFields, form, state)]

\* The setters FormRenderer passes in the bag are those of useState
useStateSetter(b, call) ==
  CASE call.fn = "setChecked"        -> [b EXCEPT !.checked = call.args[1]]
    [] call.fn = "setSmartDatetime"  -> [b EXCEPT !.smartDatetime = call.args[1]]
    [] call.fn = "setTagsValue"      -> [b EXCEPT !.tagsValue = call.args[1]]
    [] call.fn = "setValue"          -> [b EXCEPT !.value = call.args[1]]
    [] call.fn = "setDate"           -> [b EXCEPT !.date = call.args[1]]
    [] call.fn = "setSelectedValues" -> [b EXCEPT !.selectedValues = call.args[1]]
    [] call.fn = "setCountryName"    -> [b EXCEPT !.countryName = call.args[1]]
    [] call.fn = "setStateName"      -> [b EXCEPT !.stateName = call.args[1]]
    [] call.fn = "setFiles"          -> [b EXCEPT !.files = call.args[1]]
    [] call.fn = "setDatetime"       -> [b EXCEPT !.datetime = call.args[1]]
    [] OTHER -> b

\* form.setValue(name, value) of react-hook-form
formSetValue(form, call) ==
  IF call.fn = "form.setValue"
    THEN [form EXCEPT ![call.args[1]] = call.args[2]]
    ELSE form

RECURSIVE RunSetters(_, _)
RunSetters(b, calls) ==
  IF Len(calls) = 0 THEN b
  ELSE RunSetters(useStateSetter(b, Head(calls)), Tail(calls))

RECURSIVE RunFormSets(_, _)
RunFormSets(form, calls) ==
  IF Len(calls) = 0 THEN form
  ELSE RunFormSets(formSetValue(form, Head(calls)), Tail(calls))

----------------------------------------------------------------------------
(* Bounds and the inputs of a session.                                     *)

MaxKey == 2      \* successful refreshes of a session
MaxEdits == 2    \* texts typed into the editor in a session of editing
MaxForms == 1    \* Form Definitions typed in a session of filling the form in
MaxPreviewEvents == 3   \* events handled by the controls of the builder's preview

Dates == {"2024-03-01"}
TagLists == {<<>>, <<"red">>}
ValueLists == {<<>>, <<"Vue">>}
FileLists == {None, Some(<<"a.png">>)}
SliderStops == {0, 50}
Countries == {None, Some("France")}
States == {None, Some("Paris")}
Signatures == {None, Some("data:image/png;base64")}
\* the languages a session picks in a Combobox: the first ones of the list
PickedLanguages == {languages[1], languages[2]}

F(type, name) == JsonField(Some(type), name, Absent, Absent, Absent, Absent, Absent)

\* The Form Definitions a session types
BooleanForm ==
  <<JsonField(Some(S("c", "heckbox")), "a", Some(TRUE), Absent, Absent, Absent, Absent),
    F(S("s", "witch"), "b"),
    JsonField(Some(S("c", "heckbox")), "c", Some(FALSE), Absent, Absent, Absent, Absent)>>
ProgrammingLanguages ==
  <<[label |-> "JavaScript", value |-> "js"],
    [label |-> "TypeScript", value |-> "ts"],
    [label |-> "Python",     value |-> "py"]>>
ValueForm ==
  <<JsonField(Some(S("s", "lider")), "a", Absent, Some(500), Some(0), Some(1000), Some(10)),
    [F(S("c", "ombobox"), "b") EXCEPT !.options = Some(ProgrammingLanguages)]>>
DateForm ==
  <<F(S("d", "ate"), "a"), F(S("d", "atetime"), "b"), F(S("S", "mart Datetime Input"), "c")>>
ListForm ==
  <<F(S("f", "ile"), "a"), F(S("T", "ags Input"), "b"), F(S("M", "ulti Select"), "c")>>
MixedForm ==
  <<F(S("L", "ocation Input"), "a"), F(S("r", "ating"), "b"),
    F(S("S", "ignature Input"), "c"), F(S("d", "ate-picker"), "d")>>
UntypedForm ==
  <<F(S("t", "ext"), "a"),
    JsonField(Absent, "b", Absent, Absent, Absent, Absent, Absent)>>

FormText(fields) == JSONstringify(JObject(Some(JArray(fields))))

\* a text the user is still typing: the closing brace is not there yet
Unfinished(text) == SubSeq(text, 1, Len(text) - 1)

FormTexts ==
  {FormText(BooleanForm), FormText(ValueForm), FormText(DateForm),
   FormText(ListForm), FormText(MixedForm)}

ShapeTexts ==
  {JSONstringify(defaultFormJson),
   Unfinished(JSONstringify(defaultFormJson)),
   Unfinished(FormText(BooleanForm)),
   FormText(BooleanForm),
   FormText(UntypedForm),
   <<NumTok(5)>>,
   <<Tok("["), Tok("]")>>,
   <<Tok("{"), Tok("}")>>,
   <<Tok("{"), Tok("\"fields\""), Tok(":"), NumTok(5), Tok("}")>>,
   <<Tok("{"), Tok("\"fields\""), Tok(":"), Tok("["), Tok("]"), Tok("}")>>}

----------------------------------------------------------------------------
(* FormJsonBuilder: the editor's handlers, and the render of its preview.  *)

\* the editor starting with the error line shown over its well-formed text
InitEditor_ErrorShown ==
  /\ jsonValue = JSONstringify(defaultFormJson)
  /\ formData = defaultFormJson
  /\ error = "Invalid JSON format"
  /\ key = 0
  /\ bag = InitialBag
  /\ formValues = generateDefaultValues(formFieldsOf(defaultFormJson).formFields)
  /\ screen = FormRenderer(defaultFormJson, 0,
                           generateDefaultValues(formFieldsOf(defaultFormJson).formFields),
                           InitialBag)
  /\ edits = 0
  /\ toggles = 0

InitEditor ==
  /\ jsonValue = JSONstringify(defaultFormJson)
  /\ formData = defaultFormJson
  /\ error = ""
  /\ key = 0
  /\ bag = InitialBag
  /\ formValues = generateDefaultValues(formFieldsOf(defaultFormJson).formFields)
  /\ screen = FormRenderer(defaultFormJson, 0,
                           generateDefaultValues(formFieldsOf(defaultFormJson).formFields),
                           InitialBag)
  /\ edits = 0
  /\ toggles = 0

\* The page is gone once a render has thrown: nothing catches the error
Mounted == screen.status = "rendered"

\* handleJsonChange that empties the preview on a text it cannot parse
handleJsonChange_ResetsOnError(value) ==
  /\ Mounted
  /\ edits' = edits + 1
  /\ jsonValue' = value
  /\ LET parsed == JSONparse(value)
     IN IF parsed /= SyntaxError
          THEN /\ formData' = parsed
               /\ error' = ""
          ELSE /\ error' = "Invalid JSON format"
               /\ formData' = JObject(Some(JArray(<<>>)))
  /\ UNCHANGED <<key, bag, formValues, screen, toggles>>

handleJsonChange(value) ==
  /\ Mounted
  /\ edits' = edits + 1
  /\ jsonValue' = value
  /\ LET parsed == JSONparse(value)
     IN IF parsed /= SyntaxError
          THEN /\ formData' = parsed
               /\ error' = ""
          ELSE /\ error' = "Invalid JSON format"
               /\ UNCHANGED formData
  /\ UNCHANGED <<key, bag, formValues, screen, toggles>>

\* handleRefresh that also raises the key on a text it cannot parse
handleRefresh_AlwaysNewKey ==
  /\ Mounted
  /\ key < MaxKey
  /\ key' = key + 1
  /\ LET parsed == JSONparse(jsonValue)
     IN IF parsed /= SyntaxError
          THEN /\ formData' = parsed
               /\ error' = ""
          ELSE /\ error' = "Invalid JSON format"
               /\ UNCHANGED formData
  /\ UNCHANGED <<jsonValue, bag, formValues, screen, edits, toggles>>

handleRefresh ==
  /\ Mounted
  /\ LET parsed == JSONparse(jsonValue)
     IN IF parsed /= SyntaxError
          THEN /\ key < MaxKey
               /\ formData' = parsed
               /\ error' = ""
               /\ key' = key + 1
          ELSE /\ error' = "Invalid JSON format"
               /\ UNCHANGED <<formData, key>>
  /\ UNCHANGED <<jsonValue, bag, formValues, screen, edits, toggles>>

\* a render that keeps the slots of the old instance under a new key
Render_KeepsSlots ==
  /\ Mounted
  /\ LET remount == screen.key /= key
         converted == formFieldsOf(formData)
         form == IF remount /\ converted.error = None
                   THEN generateDefaultValues(converted.formFields)
                   ELSE formValues
     IN /\ screen' = FormRenderer(formData, key, form, bag)
        /\ bag' = bag
        /\ formValues' = form
  /\ toggles' = IF screen.key /= key THEN 0 ELSE toggles
  /\ UNCHANGED <<jsonValue, formData, error, key, edits>>

\* a render during which the dispatcher calls state.setChecked(true)
Render_WritesSlot ==
  /\ Mounted
  /\ LET remount == screen.key /= key
         state == IF remount THEN InitialBag ELSE bag
         converted == formFieldsOf(formData)
         form == IF remount /\ converted.error = None
                   THEN generateDefaultValues(converted.formFields)
                   ELSE formValues
     IN /\ screen' = FormRenderer(formData, key, form, state)
        /\ bag' = [state EXCEPT !.checked = TRUE]
        /\ formValues' = form
  /\ toggles' = IF screen.key /= key THEN 0 ELSE toggles
  /\ UNCHANGED <<jsonValue, formData, error, key, edits>>

\* a render that mounts a fresh instance whether or not the key is new
Render_AlwaysRemounts ==
  /\ Mounted
  /\ LET converted == formFieldsOf(formData)
         form == IF converted.error = None
                   THEN generateDefaultValues(converted.formFields)
                   ELSE formValues
     IN /\ screen' = FormRenderer(formData, key, form, InitialBag)
        /\ bag' = InitialBag
        /\ formValues' = form
  /\ toggles' = 0
  /\ UNCHANGED <<jsonValue, formData, error, key, edits>>

\* React renders <FormRenderer key={key} formData={formData} />: a new key
\* unmounts the instance and mounts a fresh one
Render ==
  /\ Mounted
  /\ LET remount == screen.key /= key
         state == IF remount THEN InitialBag ELSE bag
         converted == formFieldsOf(formData)
         form == IF remount /\ converted.error = None
                   THEN generateDefaultValues(converted.formFields)
                   ELSE formValues
     IN /\ screen' = FormRenderer(formData, key, form, state)
        /\ bag' = state
        /\ formValues' = form
  /\ toggles' = IF screen.key /= key THEN 0 ELSE toggles
  /\ UNCHANGED <<jsonValue, formData, error, key, edits>>

\* A handler of a rendered control runs: the calls it makes go to the
\* setters of useState and to the form of useForm
Handle(calls) ==
  /\ bag' = RunSetters(bag, calls)
  /\ formValues' = RunFormSets(formValues, calls)
  /\ toggles' = IF \E c \in 1..Len(calls) : calls[c].fn = "setChecked"
                  THEN 1 - toggles ELSE toggles
  /\ UNCHANGED <<jsonValue, formData, error, key, screen, edits>>

\* the positions of the rendered controls of a variant
Rendered(variant) ==
  IF screen.status = "rendered"
    THEN {i \in 1..Len(screen.formFields) :
            screen.rendered[i] /= Null /\ screen.formFields[i].variant = variant}
    ELSE {}

ToggleCheckbox ==
  \E i \in Rendered(Checkbox) :
    /\ ~screen.formFields[i].disabled
    /\ Handle(Checkbox_onCheckedChange(screen.formFields[i], screen.state))

ToggleSwitch ==
  \E i \in Rendered(Switch) :
    Handle(Switch_onCheckedChange(screen.formFields[i], screen.state))

SelectLanguage ==
  \E i \in Rendered(Combobox), language \in PickedLanguages :
    Handle(Combobox_onSelect(screen.formFields[i], screen.state, language))

PickDate ==
  \E i \in Rendered(DatePicker), date \in {None} \cup {Some(d) : d \in Dates} :
    Handle(DatePicker_onSelect(screen.formFields[i], screen.state, date))

PickDatetime ==
  \E i \in Rendered(DatetimePicker), datetime \in {None} \cup {Some(d) : d \in Dates} :
    Handle(DatetimePicker_onChange(screen.formFields[i], screen.state, datetime))

TypeSmartDatetime ==
  \E i \in Rendered(SmartDatetimeInput), newDate \in Dates :
    Handle(SmartDatetimeInput_onValueChange(screen.formFields[i], screen.state, newDate))

ChangeFiles ==
  \E i \in Rendered(FileInput), files \in FileLists :
    Handle(FileInput_onValueChange(screen.formFields[i], screen.state, files))

MoveSlider ==
  \E i \in Rendered(Slider) :
    \E v \in {x \in SliderStops :
                /\ screen.rendered[i].child.min <= x
                /\ x <= screen.rendered[i].child.max
                /\ (x - screen.rendered[i].child.min) % screen.rendered[i].child.step = 0} :
      Handle(Slider_onValueChange(screen.formFields[i], screen.state, <<v>>))

ChangeValues ==
  \E i \in Rendered(MultiSelect), newValues \in ValueLists :
    Handle(MultiSelect_onValuesChange(screen.formFields[i], screen.state, newValues))

ChangeTags ==
  \E i \in Rendered(TagsInput), newTags \in TagLists :
    Handle(TagsInput_onValueChange(screen.formFields[i], screen.state, newTags))

SelectCountry ==
  \E i \in Rendered(LocationInput), country \in Countries :
    Handle(LocationInput_onCountryChange(screen.formFields[i], screen.state, country))

SelectState ==
  \E i \in Rendered(LocationInput), stateData \in States :
    Handle(LocationInput_onStateChange(screen.formFields[i], screen.state, stateData))

DrawSignature ==
  \E i \in Rendered(SignatureInput), signature \in Signatures :
    Handle(SignatureInput_onSignatureChange(screen.formFields[i], screen.state, signature))

----------------------------------------------------------------------------
(* FormPreview and renderFormFields: the builder's preview.                *)

\* The state argument renderFormFields passes: constants and empty setters
PreviewBag ==
  [checked        |-> FALSE,
   smartDatetime  |-> None,
   tagsValue      |-> <<>>,
   value          |-> "",
   date           |-> None,
   selectedValues |-> <<>>,
   countryName    |-> "",
   stateName      |-> "",
   files          |-> None,
   datetime       |-> None]

\* A FieldSpec as the builder supplies it
FieldSpec(variant, name) ==
  [variant |-> variant, type |-> EmptyS, name |-> name, disabled |-> FALSE,
   checked |-> FALSE, options |-> None, min |-> None, max |-> None, step |-> None]

\* An entry of formFields: a FieldSpec, or an array of FieldSpecs
Single(field) == [isArray |-> FALSE, members |-> <<field>>]
Group(fields) == [isArray |-> TRUE, members |-> fields]

\* React.cloneElement(element, props) throws unless element is an element
cloneElement(element, name) ==
  IF element = Null
    THEN InvariantError
    ELSE [control |-> "FormField", name |-> name, child |-> element]

\* renderFormFields that lays the members of a group out last to first
renderFormFields_MembersReversed(fields, form) ==
  [index \in 1..Len(fields) |->
     IF fields[index].isArray
       THEN LET fieldOrGroup == fields[index].members
                colSpan == IF Len(fieldOrGroup) = 2 THEN 6 ELSE 4
                last == Len(fieldOrGroup) + 1
            IN [control  |-> "row",
                colSpan  |-> colSpan,
                children |-> [subIndex \in 1..Len(fieldOrGroup) |->
                                cloneElement(
                                  renderFormField(fieldOrGroup[last - subIndex], form,
                                                  PreviewBag),
                                  fieldOrGroup[last - subIndex].name)]]
       ELSE LET fieldOrGroup == fields[index].members[1]
            IN cloneElement(renderFormField(fieldOrGroup, form, PreviewBag),
                            fieldOrGroup.name)]

renderFormFields(fields, form) ==
  [index \in 1..Len(fields) |->
     IF fields[index].isArray
       THEN LET fieldOrGroup == fields[index].members
                colSpan == IF Len(fieldOrGroup) = 2 THEN 6 ELSE 4
            IN [control  |-> "row",
                colSpan  |-> colSpan,
                children |-> [subIndex \in 1..Len(fieldOrGroup) |->
                                cloneElement(
                                  renderFormField(fieldOrGroup[subIndex], form, PreviewBag),
                                  fieldOrGroup[subIndex].name)]]
       ELSE LET fieldOrGroup == fields[index].members[1]
            IN cloneElement(renderFormField(fieldOrGroup, form, PreviewBag),
                            fieldOrGroup.name)]

\* the FieldSpecs of a list, groups flattened
RECURSIVE Flat(_)
Flat(fields) ==
  IF Len(fields) = 0 THEN <<>> ELSE Head(fields).members \o Flat(Tail(fields))

BlockThrows(block) ==
  \/ IsThrow(block)
  \/ /\ block.control = "row"
     /\ \E j \in 1..Len(block.children) : IsThrow(block.children[j])

\* generateFormCode: the unformatted source text emitted for a list
generateFormCode(formFields) == [source |-> "tsx", fields |-> Flat(formFields)]

\* formatJSXCode: the formatted text, or the formatter's failure on a text
\* it cannot take as source; `wellFormed` says which text this one is
formatJSXCode(code, wellFormed) ==
  IF wellFormed THEN [formatted |-> code] ELSE FormatError

\* One run of the FormPreview function.  `toast` is the notification the
\* run raises: none, toasts are raised by onSubmit only.
FormPreview(formFields, form, wellFormed) ==
  LET generatedCode == generateFormCode(formFields)
      formattedCode == formatJSXCode(generatedCode, wellFormed)
      blocks == renderFormFields(formFields, form)
  IN IF IsThrow(formattedCode)
       THEN [status |-> "crashed", formFields |-> <<>>, blocks |-> <<>>,
             toast |-> None]
     ELSE IF Len(formFields) > 0 /\ \E i \in 1..Len(blocks) : BlockThrows(blocks[i])
       THEN [status |-> "crashed", formFields |-> <<>>, blocks |-> <<>>,
             toast |-> None]
       ELSE [status |-> "rendered", formFields |-> formFields,
             blocks |-> IF Len(formFields) > 0 THEN blocks ELSE <<>>,
             toast |-> None]

\* The lists the builder supplies
PreviewLists ==
  {<<Single(FieldSpec(Input, "a")), Single(FieldSpec(Checkbox, "b"))>>,
   <<Group(<<FieldSpec(Input, "a"), FieldSpec(Checkbox, "b")>>)>>,
   <<Single(FieldSpec(Combobox, "a")),
     Group(<<FieldSpec(TagsInput, "b"), FieldSpec(MultiSelect, "c"),
             FieldSpec(LocationInput, "d")>>)>>,
   <<Group(<<FieldSpec(Slider, "a"), FieldSpec(Switch, "b"),
             FieldSpec(DatePicker, "c"), FieldSpec(Password, "d")>>)>>,
   <<Single(FieldSpec(Input, "a")), Single(FieldSpec(S("R", "ating"), "b")),
     Single(FieldSpec(Textarea, "c"))>>,
   <<Single(FieldSpec(Input, "a")),
     Group(<<FieldSpec(S("R", "ating"), "b"), FieldSpec(Textarea, "c")>>)>>}

InitPreview ==
  /\ pFields = <<>>
  /\ pValues = [n \in Names |-> Undefined]
  /\ pWellFormed = TRUE
  /\ pEvents = 0
  /\ pScreen = FormPreview(<<>>, [n \in Names |-> Undefined], TRUE)

PreviewMounted == pScreen.status = "rendered"

\* The builder hands the preview a new list; FormPreview runs again.  The
\* form made by useForm on the first run keeps its values.
SetFormFields(fields, wellFormed) ==
  /\ PreviewMounted
  /\ pFields' = fields
  /\ pWellFormed' = wellFormed
  /\ pScreen' = FormPreview(fields, pValues, wellFormed)
  /\ UNCHANGED <<pValues, pEvents>>

\* A handler of a control of the builder's preview runs: the setters it
\* calls are () => {}, form.setValue writes, and FormPreview runs again
PreviewHandle(calls) ==
  /\ pEvents' = pEvents + 1
  /\ pValues' = RunFormSets(pValues, calls)
  /\ pScreen' = FormPreview(pFields, pValues', pWellFormed)
  /\ UNCHANGED <<pFields, pWellFormed>>

PreviewFields(variant) ==
  IF PreviewMounted
    THEN {f \in {Flat(pScreen.formFields)[i] : i \in 1..Len(Flat(pScreen.formFields))} :
            f.variant = variant}
    ELSE {}

PreviewToggleCheckbox ==
  \E field \in PreviewFields(Checkbox) :
    PreviewHandle(Checkbox_onCheckedChange(field, PreviewBag))

PreviewToggleSwitch ==
  \E field \in PreviewFields(Switch) :
    PreviewHandle(Switch_onCheckedChange(field, PreviewBag))

PreviewPickDate ==
  \E field \in PreviewFields(DatePicker), d \in Dates :
    PreviewHandle(DatePicker_onSelect(field, PreviewBag, Some(d)))

PreviewSelectLanguage ==
  \E field \in PreviewFields(Combobox), language \in PickedLanguages :
    PreviewHandle(Combobox_onSelect(field, PreviewBag, language))

PreviewChangeTags ==
  \E field \in PreviewFields(TagsInput), newTags \in TagLists :
    PreviewHandle(TagsInput_onValueChange(field, PreviewBag, newTags))

PreviewChangeValues ==
  \E field \in PreviewFields(MultiSelect), newValues \in ValueLists :
    PreviewHandle(MultiSelect_onValuesChange(field, PreviewBag, newValues))

PreviewSelectCountry ==
  \E field \in PreviewFields(LocationInput), country \in Countries :
    PreviewHandle(LocationInput_onCountryChange(field, PreviewBag, country))

PreviewSelectState ==
  \E field \in PreviewFields(LocationInput), stateData \in States :
    PreviewHandle(LocationInput_onStateChange(field, PreviewBag, stateData))

----------------------------------------------------------------------------
(* The dispatch pipeline: one JSON field object converted and dispatched,  *)
(* or one FieldSpec dispatched, against one state bag.                     *)

\* The keys of fieldTypesDocs
fieldTypesDocs ==
  <<S("i", "nput"), S("c", "heckbox"), S("d", "ate-picker"), S("d", "atetime-picker"),
    S("f", "ile-input"), S("p", "assword"), S("p", "hone"), S("s", "elect"),
    S("m", "ulti-select"), S("s", "ignature-input"), S("s", "lider"),
    S("s", "mart-datetime"), S("s", "witch"), S("t", "ags-input"), S("t", "extarea"),
    S("l", "ocation-input"), S("i", "nput-otp"), S("c", "ombobox")>>

DocumentedTypes == {fieldTypesDocs[i] : i \in 1..Len(fieldTypesDocs)}

\* The strings a dispatched field's variant is drawn from
VariantStrings ==
  {S("C", "heckbox"), S("C", "ombobox"), S("D", "ate Picker"), S("D", "atetime Picker"),
   S("F", "ile Input"), S("I", "nput"), S("I", "nput OTP"), S("L", "ocation Input"),
   S("M", "ulti Select"), S("S", "elect"), S("S", "lider"), S("S", "ignature Input"),
   S("S", "mart Datetime Input"), S("S", "witch"), S("T", "ags Input"), S("T", "extarea"),
   S("P", "assword"), S("P", "hone"),
   EmptyS, S("c", "heckbox"), S("D", "ate-picker"), S("D", "atePicker"), S("R", "ating"),
   S("S", "lider "), S("I", "nputOTP"), S("T", "ext")}

\* The `type` strings a converted JSON field is drawn from
TypeStrings ==
  DocumentedTypes \cup {typeToVariant[i][1] : i \in 1..Len(typeToVariant)}
    \cup {EmptyS, S("r", "ating"), S("S", "lider"), S("T", "ags Input"), S("5", "star")}

\* The `length` values an OTP field declares
OTPLengths == {4, 6, 8}

DispatchJsonFields ==
  {JsonField(Some(type), "a", checked, defaultValue, Absent, Absent, Absent) :
     type \in TypeStrings, checked \in {Absent, Some(TRUE)},
     defaultValue \in {Absent, Some(500)}}
  \cup {JsonField(Absent, "a", Absent, Absent, Absent, Absent, Absent)}
  \cup {[JsonField(Some(type), "a", Absent, Absent, Absent, Absent, Absent)
           EXCEPT !.length = Some(length)] :
          type \in {S("i", "nput-otp"), S("I", "nput OTP")}, length \in OTPLengths}

DispatchFieldSpecs ==
  {[FieldSpec(variant, "a") EXCEPT !.min = min] :
     variant \in VariantStrings, min \in {None, Some(0), Some(10)}}
  \cup {[FieldSpec(Slider, "a") EXCEPT !.min = min, !.max = max, !.step = step] :
          min \in {None, Some(-10), Some(0)}, max \in {None, Some(0), Some(50)},
          step \in {None, Some(5)}}

DispatchBags ==
  {[InitialBag EXCEPT !.checked = checked, !.value = value, !.date = date] :
     checked \in BOOLEAN, value \in {"", "en", "50"},
     date \in {None} \cup {Some(d) : d \in Dates}}

DispatchForm == [n \in Names |-> Undefined]

InitDispatchIdle ==
  /\ dpc = "idle"
  /\ dJson = None
  /\ dField = None
  /\ dState = InitialBag
  /\ dOut = None

InitDispatch ==
  /\ dState \in DispatchBags
  /\ dOut = None
  /\ \/ /\ dpc = "json"
        /\ dJson \in {Some(j) : j \in DispatchJsonFields}
        /\ dField = None
     \/ /\ dpc = "field"
        /\ dJson = None
        /\ dField \in {Some(f) : f \in DispatchFieldSpecs}

Convert ==
  /\ dpc = "json"
  /\ LET converted == convertJsonFieldToFormField(dJson[1])
     IN IF converted = TypeError
          THEN /\ dpc' = "done"
               /\ dOut' = Some(TypeError)
               /\ UNCHANGED dField
          ELSE /\ dpc' = "field"
               /\ dField' = Some(converted)
               /\ UNCHANGED dOut
  /\ UNCHANGED <<dJson, dState>>

Dispatch ==
  /\ dpc = "field"
  /\ dpc' = "done"
  /\ dOut' = Some(renderFormField(dField[1], DispatchForm, dState))
  /\ UNCHANGED <<dJson, dField, dState>>

----------------------------------------------------------------------------
(* Specifications.                                                         *)

Init == InitEditor /\ InitPreview /\ InitDispatchIdle

\* the JSON-driven preview page, a session of editing the text
Next ==
  /\ \/ \E value \in ShapeTexts : edits < MaxEdits /\ handleJsonChange(value)
     \/ handleRefresh
     \/ Render
     \/ ToggleCheckbox
     \/ ToggleSwitch
  /\ UNCHANGED <<previewVars, dispatchVars>>

Spec == Init /\ [][Next]_vars

\* the JSON-driven preview page, a session of filling the previewed form in
NextControls ==
  /\ \/ \E value \in FormTexts : edits < MaxForms /\ handleJsonChange(value)
     \/ handleRefresh
     \/ Render
     \/ ToggleCheckbox
     \/ ToggleSwitch
     \/ SelectLanguage
     \/ PickDate
     \/ PickDatetime
     \/ TypeSmartDatetime
     \/ ChangeFiles
     \/ MoveSlider
     \/ ChangeValues
     \/ ChangeTags
     \/ SelectCountry
     \/ SelectState
     \/ DrawSignature
  /\ UNCHANGED <<previewVars, dispatchVars>>

SpecControls == Init /\ [][NextControls]_vars

\* the builder's preview
NextPreview ==
  /\ \/ \E fields \in PreviewLists, wellFormed \in BOOLEAN :
          SetFormFields(fields, wellFormed)
     \/ pEvents < MaxPreviewEvents /\ PreviewToggleCheckbox
     \/ pEvents < MaxPreviewEvents /\ PreviewToggleSwitch
     \/ pEvents < MaxPreviewEvents /\ PreviewPickDate
     \/ pEvents < MaxPreviewEvents /\ PreviewSelectLanguage
     \/ pEvents < MaxPreviewEvents /\ PreviewChangeTags
     \/ pEvents < MaxPreviewEvents /\ PreviewChangeValues
     \/ pEvents < MaxPreviewEvents /\ PreviewSelectCountry
     \/ pEvents < MaxPreviewEvents /\ PreviewSelectState
  /\ UNCHANGED <<editorVars, dispatchVars>>

SpecPreview == Init /\ [][NextPreview]_vars

\* the conversion and the dispatcher as functions
NextDispatch ==
  /\ Convert \/ Dispatch
  /\ UNCHANGED <<editorVars, previewVars>>

InitFunctions == InitEditor /\ InitPreview /\ InitDispatch

SpecDispatch == InitFunctions /\ [][NextDispatch]_vars

\* the two hosts side by side: Form Definitions typed into the editor and
\* lists handed to the builder's preview, no control touched
NextOrder ==
  \/ /\ \/ \E value \in FormTexts : edits < MaxForms /\ handleJsonChange(value)
        \/ handleRefresh
        \/ Render
     /\ UNCHANGED <<previewVars, dispatchVars>>
  \/ /\ \E fields \in PreviewLists, wellFormed \in BOOLEAN :
          SetFormFields(fields, wellFormed)
     /\ UNCHANGED <<editorVars, dispatchVars>>

SpecOrder == Init /\ [][NextOrder]_vars

----------------------------------------------------------------------------
(* Properties.                                                             *)

\* The variant tags the specification lists as recognized
RecognizedTags ==
  {S("C", "heckbox"), S("C", "ombobox"), S("D", "ate Picker"), S("D", "atetime Picker"),
   S("F", "ile Input"), S("I", "nput"), S("I", "nput OTP"), S("L", "ocation Input"),
   S("M", "ulti Select"), S("S", "elect"), S("S", "lider"), S("S", "ignature Input"),
   S("S", "mart Datetime Input"), S("S", "witch"), S("T", "ags Input"), S("T", "extarea"),
   S("P", "assword"), S("P", "hone")}

\* the last render is the render of the current state
UpToDate == screen = FormRenderer(formData, key, formValues, bag)

\* the instance is as mounted: no handler has changed a slot
Fresh == screen.status = "rendered" /\ screen.state = InitialBag /\ bag = InitialBag

\* C1: the dispatcher is total: a dispatched field yields a control or "no
\* control", never an exception, and "no control" exactly when the variant
\* is none of the eighteen recognized tags.
C1_DispatcherTotal ==
  (dpc = "done" /\ dField /= None) =>
    /\ dOut /= None
    /\ ~IsThrow(dOut[1])
    /\ (dOut[1] = Null <=> dField[1].variant \notin RecognizedTags)

C1_Witness ==
  /\ dpc = "done"
  /\ dField /= None
  /\ dField[1].variant = S("D", "atePicker")
  /\ dOut = Some(Null)

\* C2: every change event of a control leaves the new value both in the
\* control's slot of the state bag and in the bound form value under the
\* field's name.
C2_Wrote(calls, slot, slotValue, name, formValue) ==
  Handle(calls) => (bag'[slot] = slotValue /\ formValues'[name] = formValue)

DateValue(d) == Value("date", d, <<>>, FALSE, 0)

C2_EventWritesSlotAndFormValue ==
  [][/\ \A i \in Rendered(Checkbox) :
          C2_Wrote(Checkbox_onCheckedChange(screen.formFields[i], screen.state),
                   "checked", ~screen.state.checked,
                   screen.formFields[i].name, Bool(~screen.state.checked))
     /\ \A i \in Rendered(Switch) :
          C2_Wrote(Switch_onCheckedChange(screen.formFields[i], screen.state),
                   "checked", ~screen.state.checked,
                   screen.formFields[i].name, Bool(~screen.state.checked))
     /\ \A i \in Rendered(Combobox), language \in PickedLanguages :
          C2_Wrote(Combobox_onSelect(screen.formFields[i], screen.state, language),
                   "value", language.value,
                   screen.formFields[i].name, Str(language.value))
     /\ \A i \in Rendered(DatePicker), d \in Dates :
          C2_Wrote(DatePicker_onSelect(screen.formFields[i], screen.state, Some(d)),
                   "date", Some(d),
                   screen.formFields[i].name, DateValue(d))
     /\ \A i \in Rendered(DatetimePicker), d \in Dates :
          C2_Wrote(DatetimePicker_onChange(screen.formFields[i], screen.state, Some(d)),
                   "datetime", Some(d),
                   screen.formFields[i].name, DateValue(d))
     /\ \A i \in Rendered(SmartDatetimeInput), d \in Dates :
          C2_Wrote(SmartDatetimeInput_onValueChange(screen.formFields[i], screen.state, d),
                   "smartDatetime", Some(d),
                   screen.formFields[i].name, DateValue(d))
     /\ \A i \in Rendered(FileInput), files \in FileLists \ {None} :
          C2_Wrote(FileInput_onValueChange(screen.formFields[i], screen.state, files),
                   "files", files,
                   screen.formFields[i].name, Arr(files[1]))
     /\ \A i \in Rendered(Slider), v \in SliderStops :
          C2_Wrote(Slider_onValueChange(screen.formFields[i], screen.state, <<v>>),
                   "value", ToString(v),
                   screen.formFields[i].name, Num(v))
     /\ \A i \in Rendered(MultiSelect), newValues \in ValueLists :
          C2_Wrote(MultiSelect_onValuesChange(screen.formFields[i], screen.state, newValues),
                   "selectedValues", newValues,
                   screen.formFields[i].name, Arr(newValues))
     /\ \A i \in Rendered(TagsInput), newTags \in TagLists :
          C2_Wrote(TagsInput_onValueChange(screen.formFields[i], screen.state, newTags),
                   "tagsValue", newTags,
                   screen.formFields[i].name, Arr(newTags))
     /\ \A i \in Rendered(LocationInput), country \in Countries \ {None} :
          C2_Wrote(LocationInput_onCountryChange(screen.formFields[i], screen.state, country),
                   "countryName", country[1],
                   screen.formFields[i].name, Arr(<<country[1], bag'.stateName>>))
     /\ \A i \in Rendered(LocationInput), stateData \in States \ {None} :
          C2_Wrote(LocationInput_onStateChange(screen.formFields[i], screen.state, stateData),
                   "stateName", stateData[1],
                   screen.formFields[i].name, Arr(<<bag'.countryName, stateData[1]>>))
     /\ \A i \in Rendered(SignatureInput), signature \in Signatures \ {None} :
          Handle(SignatureInput_onSignatureChange(screen.formFields[i], screen.state,
                                                   signature))
            => formValues'[screen.formFields[i].name] = Str(signature[1])
    ]_vars

\* C3: in the builder's preview a list with a field of an unrecognized
\* variant, alone or in a group, renders without an exception, every other
\* field rendered and that field omitted.
PreviewShown ==
  UNION {IF pScreen.blocks[i].control = "row"
           THEN {pScreen.blocks[i].children[j].name :
                   j \in 1..Len(pScreen.blocks[i].children)}
           ELSE {pScreen.blocks[i].name} : i \in 1..Len(pScreen.blocks)}

C3_PreviewOmitsUnknownVariant ==
  (/\ pWellFormed
   /\ \E i \in 1..Len(Flat(pFields)) : Flat(pFields)[i].variant \notin RecognizedTags) =>
    /\ pScreen.status = "rendered"
    /\ PreviewShown = {Flat(pFields)[i].name : i \in
                         {k \in 1..Len(Flat(pFields)) :
                            Flat(pFields)[k].variant \in RecognizedTags}}

\* C4: FormRenderer renders exactly the fields whose variant the dispatcher
\* recognizes: a field without a control leaves no element, every other
\* field leaves the FormField of its control, in its place.
C4_RendererOmitsExactlyUnknown ==
  screen.status = "rendered" =>
    /\ Len(screen.rendered) = Len(screen.formFields)
    /\ \A i \in 1..Len(screen.formFields) :
         IF screen.formFields[i].variant \in RecognizedTags
           THEN /\ screen.rendered[i] /= Null
                /\ screen.rendered[i].control = "FormField"
                /\ screen.rendered[i].name = screen.formFields[i].name
                /\ screen.rendered[i].child =
                     renderFormField(screen.formFields[i], formValues, screen.state)
                /\ screen.rendered[i].child /= Null
           ELSE screen.rendered[i] = Null

C4_Witness ==
  /\ screen.status = "rendered"
  /\ \E i, j \in 1..Len(screen.formFields) :
       /\ screen.formFields[i].variant = S("R", "ating")
       /\ screen.rendered[i] = Null
       /\ i < j
       /\ screen.rendered[j] /= Null
       /\ screen.rendered[j].child.control = "Signature Input"

\* C5: every type the editor documents under "Available Field Types",
\* used as the type of a JSON field, converts to a variant the dispatcher
\* has a control for.
C5_DocumentedTypesRender ==
  (/\ dpc = "done"
   /\ dJson /= None
   /\ dJson[1].type /= None
   /\ dJson[1].type[1] \in DocumentedTypes) =>
    /\ dField /= None
    /\ dOut /= None
    /\ ~IsThrow(dOut[1])
    /\ dOut[1] /= Null

\* C6: the formData handed to FormRenderer is always an object with a
\* `fields` array of field objects.
C6_FormDataWellFormed ==
  /\ formData.t = "object"
  /\ formData.fields /= None
  /\ formData.fields[1].t = "array"

\* C7: on a text that is not well-formed JSON, handleJsonChange and
\* handleRefresh leave formData and key as they are and set error to
\* 'Invalid JSON format'; handleJsonChange still stores the text.
C7_InvalidJsonKeepsPreview ==
  [][/\ \A value \in ShapeTexts :
          (handleJsonChange(value) /\ JSONparse(value) = SyntaxError) =>
            /\ formData' = formData
            /\ key' = key
            /\ error' = "Invalid JSON format"
            /\ jsonValue' = value
     /\ (handleRefresh /\ JSONparse(jsonValue) = SyntaxError) =>
            /\ formData' = formData
            /\ key' = key
            /\ error' = "Invalid JSON format"
            /\ jsonValue' = jsonValue
    ]_vars

C7_Witness ==
  /\ JSONparse(jsonValue) = SyntaxError
  /\ error = "Invalid JSON format"
  /\ formData = JSONparse(FormText(BooleanForm))
  /\ key = 1

\* C8: all Checkbox and Switch controls of one FormRenderer instance show
\* the one `checked` slot, so they all show the same flag.
Booleans == Rendered(Checkbox) \cup Rendered(Switch)

C8_BooleansShareChecked ==
  \A i \in Booleans :
    /\ screen.rendered[i].child.checked = screen.state.checked
    /\ \A j \in Booleans :
         screen.rendered[i].child.checked = screen.rendered[j].child.checked

C8_Witness ==
  /\ Cardinality(Rendered(Checkbox)) >= 2
  /\ Cardinality(Rendered(Switch)) >= 1
  /\ \A i \in Booleans : screen.rendered[i].child.checked = TRUE

\* C9: a checkbox or switch declared with checked = true shows checked
\* before any interaction, and unchecked when checked is absent or false.
C9_BooleanStartsAtDeclared ==
  (Fresh /\ UpToDate) =>
    \A i \in Booleans :
      screen.rendered[i].child.checked =
        (formData.fields[1].items[i].checked = Some(TRUE))

\* C10: a slider declared with defaultValue d starts at d: the control's
\* initial value and the selected value shown before any interaction are d.
C10_SliderStartsAtDeclared ==
  (Fresh /\ UpToDate) =>
    \A i \in Rendered(Slider) :
      formData.fields[1].items[i].defaultValue /= None =>
        /\ screen.rendered[i].child.defaultValue =
             formData.fields[1].items[i].defaultValue[1]
        /\ screen.rendered[i].child.selected =
             ToString(formData.fields[1].items[i].defaultValue[1])

\* C11: a slider declared with min, max and step is rendered with exactly
\* those values as the minimum, maximum and step of its Slider control.
C11_SliderUsesDeclaredRange ==
  UpToDate =>
    \A i \in Rendered(Slider) :
      LET declared == formData.fields[1].items[i]
      IN (declared.min /= None /\ declared.max /= None /\ declared.step /= None) =>
           /\ screen.rendered[i].child.min = declared.min[1]
           /\ screen.rendered[i].child.max = declared.max[1]
           /\ screen.rendered[i].child.step = declared.step[1]

\* C12: in a row of the builder's preview each member of a group of exactly
\* 2 gets 6 of the 12 grid columns, and each member of a group of any other
\* size gets 3 of the 12.
C12_GroupColumnSpan ==
  \A i \in 1..Len(pScreen.blocks) :
    pScreen.blocks[i].control = "row" =>
      pScreen.blocks[i].colSpan =
        IF Len(pScreen.blocks[i].children) = 2 THEN 6 ELSE 3

\* C13: what is rendered is in the order of the Form Definition: FormRenderer
\* leaves the element of the i-th field at position i, renderFormFields
\* leaves one block per entry at the entry's position, a group is one row
\* with its members in the group's order, and no field is reordered,
\* duplicated or moved across a group boundary.
C13_RenderOrder ==
  /\ screen.status = "rendered" =>
       /\ Len(screen.rendered) = Len(screen.formFields)
       /\ \A i \in 1..Len(screen.formFields) :
            screen.rendered[i] /= Null =>
              screen.rendered[i].name = screen.formFields[i].name
       /\ UpToDate =>
            /\ Len(screen.formFields) = Len(formData.fields[1].items)
            /\ \A i \in 1..Len(screen.formFields) :
                 screen.formFields[i].name = formData.fields[1].items[i].name
  /\ (pScreen.status = "rendered" /\ Len(pFields) > 0) =>
       /\ Len(pScreen.blocks) = Len(pFields)
       /\ \A i \in 1..Len(pFields) :
            IF pFields[i].isArray
              THEN /\ pScreen.blocks[i].control = "row"
                   /\ Len(pScreen.blocks[i].children) = Len(pFields[i].members)
                   /\ \A j \in 1..Len(pFields[i].members) :
                        pScreen.blocks[i].children[j].name = pFields[i].members[j].name
              ELSE /\ pScreen.blocks[i].control = "FormField"
                   /\ pScreen.blocks[i].name = pFields[i].members[1].name

C13_Witness ==
  /\ screen.status = "rendered"
  /\ UpToDate
  /\ formData = JSONparse(FormText(ListForm))
  /\ Len(screen.rendered) = 3
  /\ screen.rendered[3].child.control = "Multi Select"
  /\ pScreen.status = "rendered"
  /\ Len(pScreen.blocks) = 2
  /\ pScreen.blocks[2].control = "row"
  /\ Len(pScreen.blocks[2].children) = 3
  /\ pScreen.blocks[2].children[3].child.control = "Location Input"

\* C14: a value the Combobox writes into the form value under the field's
\* name is the value of one of the field's declared options; a Combobox
\* without options writes nothing.
C14_ComboboxWritesDeclaredOption ==
  [][\A i \in Rendered(Combobox), language \in PickedLanguages :
       Handle(Combobox_onSelect(screen.formFields[i], screen.state, language)) =>
         LET options == screen.formFields[i].options
             written == formValues'[screen.formFields[i].name]
         IN /\ options /= None
            /\ written.t = "string"
            /\ \E k \in 1..Len(options[1]) : options[1][k].value = written.s
    ]_vars

\* the country of the 2-tuple bound under a name, "" while none is there
CountryOf(form, name) ==
  IF form[name].t = "array" /\ Len(form[name].a) = 2 THEN form[name].a[1] ELSE ""

\* FormRenderer: a state selected after a country, a render in between.
\* The country last selected is the one setCountryName left in the bag.
C15_InRenderer ==
  \A i \in Rendered(LocationInput), stateData \in States \ {None} :
    LET name == screen.formFields[i].name
    IN (/\ UpToDate
        /\ bag.countryName /= ""
        /\ Handle(LocationInput_onStateChange(screen.formFields[i], screen.state,
                                              stateData)))
         => formValues'[name] = Arr(<<bag.countryName, stateData[1]>>)

\* the builder's preview: a state selected after a country.  The country
\* last selected is the one the country event left in the form value; the
\* preview renders again after every event.
C15_InPreview ==
  \A field \in PreviewFields(LocationInput), stateData \in States \ {None} :
    (/\ CountryOf(pValues, field.name) /= ""
     /\ PreviewHandle(LocationInput_onStateChange(field, PreviewBag, stateData)))
      => pValues'[field.name] = Arr(<<CountryOf(pValues, field.name), stateData[1]>>)

\* C15: on a Location Input, after the user selects a country c and then,
\* a render later, a state s, the form value under the field's name is the
\* 2-tuple [c, s], in FormRenderer and in the builder's preview alike.
C15_LocationIsCountryThenState ==
  [][C15_InRenderer /\ C15_InPreview]_vars

\* a fresh instance has the three date slots undefined and its Date Pickers
\* show 'Pick a date'
C16_FreshUnset ==
  Fresh =>
    /\ screen.state.date = None
    /\ screen.state.datetime = None
    /\ screen.state.smartDatetime = None
    /\ \A i \in Rendered(DatePicker) :
         /\ screen.rendered[i].child.button = "Pick a date"
         /\ screen.rendered[i].child.selected = None
    /\ \A i \in Rendered(DatetimePicker) : screen.rendered[i].child.value = None
    /\ \A i \in Rendered(SmartDatetimeInput) : screen.rendered[i].child.value = None

\* an undefined date slot gets a value only by a pick on a control of the
\* slot's variant
C16_StaysUnset ==
  /\ (bag.date = None /\ bag'.date /= None) =>
       \E i \in Rendered(DatePicker), d \in Dates :
         Handle(DatePicker_onSelect(screen.formFields[i], screen.state, Some(d)))
  /\ (bag.datetime = None /\ bag'.datetime /= None) =>
       \E i \in Rendered(DatetimePicker), d \in Dates :
         Handle(DatetimePicker_onChange(screen.formFields[i], screen.state, Some(d)))
  /\ (bag.smartDatetime = None /\ bag'.smartDatetime /= None) =>
       \E i \in Rendered(SmartDatetimeInput), d \in Dates :
         Handle(SmartDatetimeInput_onValueChange(screen.formFields[i], screen.state, d))

\* C16: the date-typed controls are unset until the user picks a value: a
\* fresh FormRenderer instance has the date, datetime and smartDatetime
\* slots undefined and its Date Picker shows 'Pick a date', and each slot
\* stays undefined until a pick event on a control of its variant.
C16_DatesUnsetUntilPicked ==
  [](C16_FreshUnset) /\ [][C16_StaysUnset]_vars

C16_Witness ==
  /\ UpToDate
  /\ Rendered(DatePicker) /= {}
  /\ Rendered(DatetimePicker) /= {}
  /\ bag.datetime /= None
  /\ bag.smartDatetime /= None
  /\ bag.date = None
  /\ \A i \in Rendered(DatePicker) : screen.rendered[i].child.button = "Pick a date"

\* C17: an Input OTP field declared with length n gets a control of n
\* slots that accepts at most n characters.
C17_OTPHasDeclaredLength ==
  (/\ dpc = "done"
   /\ dJson /= None
   /\ dJson[1].length /= None
   /\ dOut /= None
   /\ ~IsThrow(dOut[1])
   /\ dOut[1].control = "Input OTP") =>
    /\ dOut[1].maxLength = dJson[1].length[1]
    /\ dOut[1].slots = dJson[1].length[1]

\* C18: when the formatter fails on the code generated for the list, the
\* preview still renders and the failure is raised as a notification.
C18_FormatFailureReported ==
  ~pWellFormed =>
    /\ pScreen.status = "rendered"
    /\ pScreen.toast /= None

\* a refresh whose text parses
C19_RefreshSucceeds == handleRefresh /\ JSONparse(jsonValue) /= SyntaxError

\* C19: a Refresh on well-formed text sets formData to the parse of the
\* current jsonValue, clears error and raises key by exactly 1; key starts
\* at 0, never decreases, and changes in no other step, so it counts the
\* successful refreshes.
C19_KeyCountsRefreshes ==
  /\ key = 0
  /\ [][/\ C19_RefreshSucceeds =>
             /\ formData' = JSONparse(jsonValue)
             /\ error' = ""
             /\ key' = key + 1
             /\ jsonValue' = jsonValue
        /\ key' >= key
        /\ key' /= key => C19_RefreshSucceeds
       ]_vars

C19_Witness ==
  /\ key = 2
  /\ error = ""
  /\ formData = JSONparse(jsonValue)
  /\ formData = JSONparse(FormText(BooleanForm))

\* C20: in every state of the editor, error is the empty string exactly
\* when the current jsonValue is well-formed JSON, and then formData is the
\* parse of jsonValue.
C20_ErrorIffMalformed ==
  /\ error = "" <=> JSONparse(jsonValue) /= SyntaxError
  /\ error = "" => formData = JSONparse(jsonValue)
  /\ error \in {"", "Invalid JSON format"}

C20_Witness ==
  /\ edits = 2
  /\ key = 1
  /\ error = ""
  /\ jsonValue = <<NumTok(5)>>
  /\ formData = JNumber(5)

\* C21: an edit to well-formed text replaces formData and leaves key, the
\* FormRenderer instance and every slot of its bag as they are; the render
\* that follows keeps the instance and its slots and computes the field
\* list anew from the new formData; only a successful Refresh changes key.
C21_ValidEditKeepsInstance ==
  [][/\ \A value \in ShapeTexts \cup FormTexts :
          (handleJsonChange(value) /\ JSONparse(value) /= SyntaxError) =>
            /\ formData' = JSONparse(value)
            /\ key' = key
            /\ bag' = bag
            /\ formValues' = formValues
            /\ screen' = screen
     /\ (Render /\ screen.key = key) =>
            /\ bag' = bag
            /\ formValues' = formValues
            /\ screen'.key = screen.key
            /\ screen'.state = bag
            /\ formFieldsOf(formData).error = None =>
                 /\ screen'.status = "rendered"
                 /\ screen'.formFields = formFieldsOf(formData).formFields
     /\ key' /= key => (handleRefresh /\ JSONparse(jsonValue) /= SyntaxError)
    ]_vars

C21_Witness ==
  /\ key = 0
  /\ bag.checked = TRUE
  /\ formData = defaultFormJson
  /\ UpToDate
  /\ screen.status = "rendered"
  /\ screen.state.checked = TRUE
  /\ Len(screen.formFields) = 3
  /\ screen.formFields[3].variant = Textarea

\* C22: the render after a successful Refresh mounts a new instance whose
\* slots are all at their initial values: checked false, value '',
\* tagsValue and selectedValues empty, files null, date, datetime and
\* smartDatetime unset, countryName and stateName '', whatever the slots
\* of the instance before held.
C22_RefreshResetsBag ==
  [][(Render /\ screen.key /= key) =>
       /\ screen'.key = key
       /\ screen'.state = bag'
       /\ bag'.checked = FALSE
       /\ bag'.value = ""
       /\ bag'.tagsValue = <<>>
       /\ bag'.selectedValues = <<>>
       /\ bag'.files = None
       /\ bag'.date = None
       /\ bag'.datetime = None
       /\ bag'.smartDatetime = None
       /\ bag'.countryName = ""
       /\ bag'.stateName = ""
    ]_vars

\* a Refresh has succeeded on an instance whose slots were written, and the
\* new instance is about to mount
C22_Witness ==
  /\ key = 1
  /\ screen.key = 0
  /\ bag.tagsValue /= <<>>
  /\ bag.selectedValues /= <<>>
  /\ bag.files /= None

\* C23: the conversion yields a FieldSpec for every JSON field object and
\* never throws, also for an object without `type` and for one of an
\* unknown `type`, whose variant is the type with its first letter
\* upper-cased.
C23_ConvertNeverThrows ==
  (dJson /= None /\ dpc /= "json") =>
    /\ dField /= None
    /\ (dOut /= None => ~IsThrow(dOut[1]))
    /\ (dJson[1].type /= None /\ typeToVariantAt(dJson[1].type) = None) =>
         dField[1].variant = S(toUpperCase(dJson[1].type[1].first),
                               dJson[1].type[1].rest)

\* C24: the Slider dispatched for a FieldSpec has the field's min, max and
\* step whenever they are given, 0 included, and 0, 100 and 1 only where
\* the property is absent.
C24_SliderBoundedByField ==
  (/\ dpc = "done"
   /\ dField /= None
   /\ dField[1].variant = Slider
   /\ dOut /= None) =>
    /\ dOut[1].control = "Slider"
    /\ dOut[1].min = IF dField[1].min = None THEN 0 ELSE dField[1].min[1]
    /\ dOut[1].max = IF dField[1].max = None THEN 100 ELSE dField[1].max[1]
    /\ dOut[1].step = IF dField[1].step = None THEN 1 ELSE dField[1].step[1]

\* the controls of a render of the builder's preview
PreviewControls(rendered) ==
  UNION {IF rendered.blocks[i].control = "row"
           THEN {rendered.blocks[i].children[j] :
                   j \in 1..Len(rendered.blocks[i].children)}
           ELSE {rendered.blocks[i]} : i \in 1..Len(rendered.blocks)}

\* the control of the field of a name
PreviewChild(rendered, name) ==
  (CHOOSE c \in PreviewControls(rendered) : c.name = name).child

\* C25: in the builder's preview an interaction updates the control's
\* slot: after one toggle the Checkbox or Switch shows checked, and after
\* a change of tags, selected values or date the control is dispatched
\* with the new value in its slot.
C25_PreviewUpdatesSlot ==
  [][/\ \A field \in PreviewFields(Checkbox) :
          PreviewHandle(Checkbox_onCheckedChange(field, PreviewBag)) =>
            PreviewChild(pScreen', field.name).checked = TRUE
     /\ \A field \in PreviewFields(Switch) :
          PreviewHandle(Switch_onCheckedChange(field, PreviewBag)) =>
            PreviewChild(pScreen', field.name).checked = TRUE
     /\ \A field \in PreviewFields(TagsInput), newTags \in TagLists :
          PreviewHandle(TagsInput_onValueChange(field, PreviewBag, newTags)) =>
            PreviewChild(pScreen', field.name).value = newTags
     /\ \A field \in PreviewFields(MultiSelect), newValues \in ValueLists :
          PreviewHandle(MultiSelect_onValuesChange(field, PreviewBag, newValues)) =>
            PreviewChild(pScreen', field.name).values = newValues
     /\ \A field \in PreviewFields(DatePicker), d \in Dates :
          PreviewHandle(DatePicker_onSelect(field, PreviewBag, Some(d))) =>
            PreviewChild(pScreen', field.name).selected = Some(d)
    ]_vars

\* the form binds the same value under two names
form_same(form, n, m) == form[n] = form[m]

C27_AliasingWithinVariant ==
  [][/\ \A i \in Rendered(Slider), v \in SliderStops :
          Handle(Slider_onValueChange(screen.formFields[i], screen.state, <<v>>)) =>
            \A j \in Rendered(Combobox) :
              renderCombobox(screen.formFields[j], formValues', bag') =
                renderCombobox(screen.formFields[j], formValues, bag)
     /\ \A j \in Rendered(Combobox), language \in PickedLanguages :
          Handle(Combobox_onSelect(screen.formFields[j], screen.state, language)) =>
            \A i \in Rendered(Slider) :
              renderSlider(screen.formFields[i], formValues', bag') =
                renderSlider(screen.formFields[i], formValues, bag)
    ]_vars

\* C28: every Checkbox or Switch toggle flips the checked slot exactly
\* once: after an even number of toggles in an instance the slot is the
\* initial value and after an odd number its negation, also when two
\* toggles are handled before the preview renders again.
C28_ToggleFlipsOnce ==
  bag.checked = (IF toggles = 0 THEN InitialBag.checked ELSE ~InitialBag.checked)

\* C29: the column spans of the members of a row of 2 to 4 fields add up to
\* at most the 12 columns of the row's grid.
C29_GroupFitsGrid ==
  \A i \in 1..Len(pScreen.blocks) :
    (/\ pScreen.blocks[i].control = "row"
     /\ Len(pScreen.blocks[i].children) \in 2..4) =>
      Len(pScreen.blocks[i].children) * pScreen.blocks[i].colSpan <= 12

====
